---- MODULE Spec2Model ----
(***************************************************************************)
(* The three report-plotting scripts of the repository as state machines:  *)
(*   reports/bubblerap2/plot_popularity.py     (script "pop")              *)
(*   reports/prophetcomparison/plot.py         (script "cmp1")             *)
(*   reports/prophetcomparison2/plot.py        (script "cmp2")             *)
(* Text (header names, file names, report lines) is a sequence of tokens,  *)
(* and the parsing steps are computed on those sequences as the code does. *)
(***************************************************************************)
EXTENDS Integers, Sequences, FiniteSets, TLC

VARIABLES
  script,           \* which program runs: "pop", "cmp1", "cmp2", "lines"
  pc,               \* position in the program
  out,              \* the diagnostics printed so far, in order
  \* ---- plot_popularity.py
  node_id_to_plot,  \* the requested node id
  df_index,         \* list(df.index), the row ids of the loaded file
  df_columns,       \* df.columns, the header names
  node_data,        \* df.loc[node_id_to_plot], the raw cells of the row
  cumulative_popularity,
  time_points,
  window_popularity,
  chart,            \* what ax.bar drew: <<labels, heights>> once drawn
  saved,            \* the image file written by plt.savefig, <<>> if none
  \* ---- both comparison scripts
  fs,               \* the directory: file name -> "absent", "unreadable" or a content id
  handed,           \* the paths handed to the parser so far, in order
  charts,           \* the figures shown by plt.show(), in order
  \* ---- prophetcomparison/plot.py
  report_files,     \* glob's result, after the sort
  idx,              \* position of the file loop
  data,             \* data[protocol][scenario][metric]
  protocols,
  scenarios,
  plot_data,        \* plot_data[protocol][metric], a list along scenarios
  \* ---- prophetcomparison2/plot.py
  DATA_FILES,       \* the configured file list
  all_parsed_data,  \* the records parse_message_stats_file returned
  prophet_types_present,
  plotting_data,    \* plotting_data[prophet_type][metric], a list of (scenario, value)
  \* ---- the line parsers alone
  line,             \* the line just read
  nlines,           \* lines read so far
  rec1,             \* data[protocol][scenario] of prophetcomparison/plot.py
  rec2              \* data of parse_message_stats_file

popVars == <<node_id_to_plot, df_index, df_columns, node_data,
             cumulative_popularity, time_points, window_popularity, chart, saved>>
cmpVars == <<fs, handed, charts>>
cmp1Vars == <<report_files, idx, data, protocols, scenarios, plot_data>>
cmp2Vars == <<DATA_FILES, all_parsed_data, prophet_types_present, plotting_data>>
lineVars == <<line, nlines, rec1, rec2>>
vars == <<script, pc, out, popVars, cmpVars, cmp1Vars, cmp2Vars, lineVars>>

CmpIdle == fs = <<>> /\ handed = <<>> /\ charts = <<>>

Cmp1Idle ==
  /\ report_files = <<>> /\ idx = 0 /\ data = <<>>
  /\ protocols = <<>> /\ scenarios = <<>> /\ plot_data = <<>>

Cmp2Idle ==
  /\ DATA_FILES = <<>> /\ all_parsed_data = <<>>
  /\ prophet_types_present = <<>> /\ plotting_data = <<>>

LinesIdle == line = <<>> /\ nlines = 0 /\ rec1 = <<>> /\ rec2 = <<>>

-----------------------------------------------------------------------------
(* Bounds of the model *)
MaxCols == 3     \* columns of the matrix file
Scale == 2       \* numeric cells are multiples of 1/Scale
MaxFiles == 2    \* files glob finds in the directory of prophetcomparison
MaxList == 2     \* entries of the configured file list of prophetcomparison2
MaxLineLen == 4  \* tokens of a report line
MaxLines == 2    \* lines read by the line parsers

-----------------------------------------------------------------------------
(* Generic helpers on sequences *)

Range(s) == {s[k] : k \in DOMAIN s}

SeqsUpTo(S, n) == UNION {[1..k -> S] : k \in 0..n}

InjSeqsUpTo(S, n) == {s \in SeqsUpTo(S, n) : \A a, b \in DOMAIN s : s[a] = s[b] => a = b}

\* a dict with key k set to v
Put(f, k, v) == [x \in (DOMAIN f) \cup {k} |-> IF x = k THEN v ELSE f[x]]

\* dict.get(k, default)
Get(f, k, default) == IF k \in DOMAIN f THEN f[k] ELSE default

Msg(kind, arg) == [kind |-> kind, arg |-> arg]

Printed(kind) == \E k \in DOMAIN out : out[k].kind = kind

-----------------------------------------------------------------------------
(* Numbers as pandas holds them: a float that may be NaN.  v counts units  *)
(* of 1/Scale.                                                             *)

NaN == [nan |-> TRUE, v |-> 0]
Num(v) == [nan |-> FALSE, v |-> v]

\* astype(int): truncation towards zero of a value held in units of 1/Scale
AsInt(v) == IF v >= 0 THEN v \div Scale ELSE -((-v) \div Scale)

-----------------------------------------------------------------------------
(* Digits *)

Digits == {"0", "1", "2", "3", "4", "5", "6", "7", "8", "9"}

DigitVal(c) ==
  CASE c = "0" -> 0 [] c = "1" -> 1 [] c = "2" -> 2 [] c = "3" -> 3 [] c = "4" -> 4
    [] c = "5" -> 5 [] c = "6" -> 6 [] c = "7" -> 7 [] c = "8" -> 8 [] c = "9" -> 9

-----------------------------------------------------------------------------
(* Text order.  File names and group keys are sequences of tokens no one   *)
(* of which is a prefix of another, so that comparing the sequences token  *)
(* by token, tokens in code-point order, is Python's string comparison.    *)

TokenRank(t) ==
  CASE t \in Digits -> DigitVal(t)
    [] t = "Epidemic" -> 10
    [] t = "Haggle" -> 11
    [] t = "MessageStatsReport.txt" -> 12
    [] t = "Prophet" -> 13
    [] t = "Random" -> 14
    [] t = "RandomProphet" -> 15
    [] t = "Reality" -> 16
    [] t = "_" -> 17
    [] t = "epidemic" -> 18
    [] t = "prophetrandomtuned" -> 19
    [] t = "prophettuned" -> 20
    [] t = "scenario" -> 21

RECURSIVE TextLess(_, _)
TextLess(a, b) ==
  IF Len(b) = 0 THEN FALSE
  ELSE IF Len(a) = 0 THEN TRUE
  ELSE IF a[1] = b[1] THEN TextLess(Tail(a), Tail(b))
  ELSE TokenRank(a[1]) < TokenRank(b[1])

\* (a slip: the sort left out, the list kept as found)
SortTextsKept(s) == s

\* list.sort() on texts: a stable insertion sort
RECURSIVE InsertText(_, _)
InsertText(x, s) ==
  IF Len(s) = 0 THEN <<x>>
  ELSE IF TextLess(x, s[1]) THEN <<x>> \o s
  ELSE <<s[1]>> \o InsertText(x, Tail(s))

RECURSIVE SortTexts(_)
SortTexts(s) ==
  IF Len(s) = 0 THEN <<>>
  ELSE InsertText(s[Len(s)], SortTexts(SubSeq(s, 1, Len(s) - 1)))

\* sorted() on numbers
RECURSIVE InsertNum(_, _)
InsertNum(x, s) ==
  IF Len(s) = 0 THEN <<x>>
  ELSE IF x < s[1] THEN <<x>> \o s
  ELSE <<s[1]>> \o InsertNum(x, Tail(s))

RECURSIVE SortNums(_)
SortNums(s) ==
  IF Len(s) = 0 THEN <<>>
  ELSE InsertNum(s[Len(s)], SortNums(SubSeq(s, 1, Len(s) - 1)))

\* list.sort(key=lambda x: x[0]) on (scenario, value) pairs: stable
RECURSIVE InsertPair(_, _)
InsertPair(x, s) ==
  IF Len(s) = 0 THEN <<x>>
  ELSE IF x[1] < s[1][1] THEN <<x>> \o s
  ELSE <<s[1]>> \o InsertPair(x, Tail(s))

RECURSIVE SortPairs(_)
SortPairs(s) ==
  IF Len(s) = 0 THEN <<>>
  ELSE InsertPair(s[Len(s)], SortPairs(SubSeq(s, 1, Len(s) - 1)))

\* list(d.keys()): the keys in some order (every use sorts the list next)
RECURSIVE KeyList(_)
KeyList(S) ==
  IF S = {} THEN <<>>
  ELSE LET x == CHOOSE y \in S : TRUE IN <<x>> \o KeyList(S \ {x})

-----------------------------------------------------------------------------
(* plot_popularity.py *)

\* the row ids a file can hold, and the ids a run can ask for (sys.argv[1] or the default)
NodeIds == {"A1", "A28"}
DEFAULT_NODE_ID == "A28"
RequestedIds == {DEFAULT_NODE_ID, "B7"}

\* the header names a loaded file can carry (pandas makes them distinct:
\* a repeated Pop@3600 is loaded as Pop@3600.1)
HPop3600 == <<"P", "o", "p", "@", "3", "6", "0", "0">>
HPop7200 == <<"P", "o", "p", "@", "7", "2", "0", "0">>
HPop10800 == <<"P", "o", "p", "@", "1", "0", "8", "0", "0">>
HNoAt == <<"P", "o", "p", "7", "2", "0", "0">>
HDup == <<"P", "o", "p", "@", "3", "6", "0", "0", ".", "1">>
Headers == {HPop3600, HPop7200, HPop10800, HNoAt, HDup}

\* the raw cells of a row: numeric text (v in units of 1/Scale), other text, empty
CellNum(v) == [kind |-> "num", v |-> v]
CellText == [kind |-> "text", v |-> 0]
CellEmpty == [kind |-> "empty", v |-> 0]
Cells == {CellNum(1), CellNum(10 * Scale), CellNum(15 * Scale), CellText, CellEmpty}

\* str.split(sep): the pieces of s between the separators
RECURSIVE SplitFrom(_, _, _, _)
SplitFrom(s, sep, k, cur) ==
  IF k > Len(s) THEN <<cur>>
  ELSE IF s[k] = sep THEN <<cur>> \o SplitFrom(s, sep, k + 1, <<>>)
  ELSE SplitFrom(s, sep, k + 1, Append(cur, s[k]))

Split(s, sep) == SplitFrom(s, sep, 1, <<>>)

\* int(text): defined for a non-empty run of digits
IsIntText(t) == Len(t) > 0 /\ \A k \in DOMAIN t : t[k] \in Digits

RECURSIVE IntOf(_)
IntOf(t) == IF Len(t) = 0 THEN 0 ELSE 10 * IntOf(SubSeq(t, 1, Len(t) - 1)) + DigitVal(t[Len(t)])

\* int(str(col).split('@')[1]) raises IndexError or ValueError, or gives the number
HeaderParses(col) == Len(Split(col, "@")) >= 2 /\ IsIntText(Split(col, "@")[2])

HeaderTime(col) == IntOf(Split(col, "@")[2])

\* [int(str(col).split('@')[1]) for col in df.columns]: all or nothing
TimePointsOk(cols) == \A k \in DOMAIN cols : HeaderParses(cols[k])

TimePoints(cols) == [k \in DOMAIN cols |-> HeaderTime(cols[k])]

\* pd.to_numeric(node_data, errors='coerce')
ToNumeric(row) == [k \in DOMAIN row |-> IF row[k].kind = "num" THEN Num(row[k].v) ELSE NaN]

AllNull(c) == \A k \in DOMAIN c : c[k].nan

\* (a slip: the missing samples filled with zero before the difference)
DiffOfFilled(c) ==
  [k \in DOMAIN c |->
     IF k = 1 THEN c[1]
     ELSE Num((IF c[k].nan THEN 0 ELSE c[k].v) - (IF c[k - 1].nan THEN 0 ELSE c[k - 1].v))]

\* Series.diff(), then .iloc[0] = cumulative.iloc[0]
Diff(c) ==
  [k \in DOMAIN c |->
     IF k = 1 THEN c[1]
     ELSE IF c[k].nan \/ c[k - 1].nan THEN NaN
     ELSE Num(c[k].v - c[k - 1].v)]

\* .fillna(0).astype(int)
FillnaAsInt(w) == [k \in DOMAIN w |-> IF w[k].nan THEN 0 ELSE AsInt(w[k].v)]

WindowPopularity(c) == FillnaAsInt(Diff(c))

WindowLabels(tp) == [k \in DOMAIN tp |-> k]

\* (a slip: the list of ids left out)
NotFoundDiagShort(node, index) == <<Msg("node_not_found", node)>>

NotFoundDiag(node, index) ==
  <<Msg("node_not_found", node), Msg("available_node_ids", index)>>

OutputFilename(node) == <<"popularity_plot_", node, "_3report.png">>

NoChart == <<>>

PopIdle ==
  /\ node_id_to_plot = DEFAULT_NODE_ID
  /\ df_index = <<>>
  /\ df_columns = <<>>
  /\ node_data = <<>>
  /\ cumulative_popularity = <<>>
  /\ time_points = <<>>
  /\ window_popularity = <<>>
  /\ chart = NoChart
  /\ saved = <<>>

PopInit ==
  /\ script = "pop"
  /\ pc = "load"
  /\ out = <<>>
  /\ node_id_to_plot \in RequestedIds
  /\ df_index = <<>>
  /\ df_columns = <<>>
  /\ node_data = <<>>
  /\ cumulative_popularity = <<>>
  /\ time_points = <<>>
  /\ window_popularity = <<>>
  /\ chart = NoChart
  /\ saved = <<>>
  /\ CmpIdle /\ Cmp1Idle /\ Cmp2Idle /\ LinesIdle

\* lines 18-25: pd.read_csv
PopLoad ==
  /\ script = "pop" /\ pc = "load"
  /\ \/ /\ \E kind \in {"file_not_found", "load_error"} : out' = Append(out, Msg(kind, 0))
        /\ pc' = "done"
        /\ UNCHANGED <<df_index, df_columns>>
     \/ /\ df_index' \in InjSeqsUpTo(NodeIds, Cardinality(NodeIds))
        /\ df_columns' \in InjSeqsUpTo(Headers, MaxCols)
        /\ pc' = "check_node"
        /\ out' = out
  /\ UNCHANGED <<cmpVars, cmp1Vars, cmp2Vars, lineVars, script, node_id_to_plot, node_data, cumulative_popularity,
                 time_points, window_popularity, chart, saved>>

\* lines 27-32: the membership test and df.loc
PopSelect ==
  /\ script = "pop" /\ pc = "check_node"
  /\ IF node_id_to_plot \notin Range(df_index)
     THEN /\ out' = out \o NotFoundDiag(node_id_to_plot, df_index)
          /\ pc' = "done"
          /\ node_data' = node_data
     ELSE /\ node_data' \in [DOMAIN df_columns -> Cells]
          /\ pc' = "parse"
          /\ out' = out
  /\ UNCHANGED <<cmpVars, cmp1Vars, cmp2Vars, lineVars, script, node_id_to_plot, df_index, df_columns, cumulative_popularity,
                 time_points, window_popularity, chart, saved>>

\* (a slip: the columns whose header does not parse are dropped, the rest plotted)
PopParseSkip ==
  /\ script = "pop" /\ pc = "parse"
  /\ LET keep == {k \in DOMAIN df_columns : HeaderParses(df_columns[k])}
         pos == SortNums(KeyList(keep))
         num == ToNumeric(node_data)
     IN /\ cumulative_popularity' = [k \in DOMAIN pos |-> num[pos[k]]]
        /\ time_points' = [k \in DOMAIN pos |-> HeaderTime(df_columns[pos[k]])]
        /\ out' = IF keep = DOMAIN df_columns THEN out
                  ELSE Append(out, Msg("header_error", node_id_to_plot))
        /\ pc' = "delta"
  /\ UNCHANGED <<cmpVars, cmp1Vars, cmp2Vars, lineVars, script, node_id_to_plot, df_index,
                 df_columns, node_data, window_popularity, chart, saved>>

\* lines 34-43: to_numeric, the header comprehension, the all-null test
PopParse ==
  /\ script = "pop" /\ pc = "parse"
  /\ IF ~TimePointsOk(df_columns)
     THEN /\ out' = Append(out, Msg("header_error", node_id_to_plot))
          /\ pc' = "done"
          /\ UNCHANGED <<cumulative_popularity, time_points>>
     ELSE /\ cumulative_popularity' = ToNumeric(node_data)
          /\ time_points' = TimePoints(df_columns)
          /\ IF AllNull(ToNumeric(node_data))
             THEN /\ out' = Append(out, Msg("not_numeric", node_id_to_plot))
                  /\ pc' = "done"
             ELSE /\ out' = out
                  /\ pc' = "delta"
  /\ UNCHANGED <<cmpVars, cmp1Vars, cmp2Vars, lineVars, script, node_id_to_plot, df_index, df_columns, node_data,
                 window_popularity, chart, saved>>

\* lines 45-48
PopDelta ==
  /\ script = "pop" /\ pc = "delta"
  /\ window_popularity' = WindowPopularity(cumulative_popularity)
  /\ pc' = "render"
  /\ UNCHANGED <<cmpVars, cmp1Vars, cmp2Vars, lineVars, script, out, node_id_to_plot, df_index, df_columns, node_data,
                 cumulative_popularity, time_points, chart, saved>>

\* lines 50-83: ax.bar(window_labels, window_popularity)
PopRender ==
  /\ script = "pop" /\ pc = "render"
  /\ chart' = <<WindowLabels(time_points), window_popularity>>
  /\ pc' = "save"
  /\ UNCHANGED <<cmpVars, cmp1Vars, cmp2Vars, lineVars, script, out, node_id_to_plot, df_index, df_columns, node_data,
                 cumulative_popularity, time_points, window_popularity, saved>>

\* lines 85-92: plt.savefig may fail; the failure is printed
PopSave ==
  /\ script = "pop" /\ pc = "save"
  /\ \/ /\ saved' = OutputFilename(node_id_to_plot)
        /\ out' = Append(out, Msg("plot_saved", node_id_to_plot))
     \/ /\ saved' = saved
        /\ out' = Append(out, Msg("save_error", node_id_to_plot))
  /\ pc' = "done"
  /\ UNCHANGED <<cmpVars, cmp1Vars, cmp2Vars, lineVars, script, node_id_to_plot, df_index, df_columns, node_data,
                 cumulative_popularity, time_points, window_popularity, chart>>

PopNext == PopLoad \/ PopSelect \/ PopParse \/ PopDelta \/ PopRender \/ PopSave

SpecPop == PopInit /\ [][PopNext]_vars

-----------------------------------------------------------------------------
(* Report lines: key: value, as both comparison scripts read them *)

METRICS_TO_PLOT ==
  <<"delivery_prob", "overhead_ratio", "latency_avg", "latency_med",
    "buffertime_avg", "buffertime_med">>

Whitelist == Range(METRICS_TO_PLOT)

\* str.strip() on a line of tokens, " " the only whitespace
RECURSIVE LStrip(_)
LStrip(t) == IF Len(t) > 0 /\ t[1] = " " THEN LStrip(Tail(t)) ELSE t

RECURSIVE RStrip(_)
RStrip(t) == IF Len(t) > 0 /\ t[Len(t)] = " " THEN RStrip(SubSeq(t, 1, Len(t) - 1)) ELSE t

Strip(t) == LStrip(RStrip(t))

\* position of the first ":" of t, 0 if none
FirstColon(t) ==
  IF \E k \in DOMAIN t : t[k] = ":"
  THEN CHOOSE k \in DOMAIN t : t[k] = ":" /\ \A j \in 1..(k - 1) : t[j] # ":"
  ELSE 0

\* float(text): a run of digits is a number, anything else raises ValueError
FloatOk(t) == IsIntText(t)

FloatOf(t) == Num(IntOf(t))

\* (a slip: a value that is not a number is dropped instead of stored as NaN)
StoreMetricDropped(d, key, value) ==
  IF FloatOk(value) THEN Put(d, key, FloatOf(value)) ELSE d

\* try: d[key] = float(value) / except ValueError: d[key] = nan
StoreMetric(d, key, value) ==
  IF FloatOk(value) THEN Put(d, key, FloatOf(value)) ELSE Put(d, key, NaN)

\* prophetcomparison/plot.py lines 59-74: one line into data[protocol][scenario]
ParseLine1(d, raw) ==
  LET l == Strip(raw)
      c == FirstColon(l)
  IN IF c = 0 THEN d
     ELSE IF c = 1 THEN d   \* re.match(r'([^:]+):\s*(.*)') needs a key before the colon
     ELSE LET key == Strip(SubSeq(l, 1, c - 1))
              value_str == Strip(SubSeq(l, c + 1, Len(l)))
          IN IF Len(key) = 1 /\ key[1] \in Whitelist
             THEN StoreMetric(d, key[1], value_str)
             ELSE d

\* prophetcomparison2/plot.py lines 69-79: one line into data
ParseLine2(d, raw) ==
  LET l == Strip(raw)
      c == FirstColon(l)
  IN IF c = 0 THEN d
     ELSE LET parts == <<SubSeq(l, 1, c - 1), SubSeq(l, c + 1, Len(l))>>   \* split(":", 1)
              key == Strip(parts[1])
              value == Strip(parts[2])
          IN IF Len(key) = 1 /\ key[1] \in Whitelist
             THEN StoreMetric(d, key[1], value)
             ELSE d

RECURSIVE ParseLines1(_, _)
ParseLines1(d, lines) ==
  IF Len(lines) = 0 THEN d ELSE ParseLines1(ParseLine1(d, lines[1]), Tail(lines))

RECURSIVE ParseLines2(_, _)
ParseLines2(d, lines) ==
  IF Len(lines) = 0 THEN d ELSE ParseLines2(ParseLine2(d, lines[1]), Tail(lines))

\* warnings of one file: the non-numeric values met
LineWarns(raw) ==
  LET l == Strip(raw)
      c == FirstColon(l)
  IN IF c >= 2 /\ Strip(SubSeq(l, 1, c - 1)) \in {<<w>> : w \in Whitelist}
        /\ ~FloatOk(Strip(SubSeq(l, c + 1, Len(l))))
     THEN <<Msg("not_a_float", Strip(SubSeq(l, 1, c - 1))[1])>>
     ELSE <<>>

RECURSIVE FileWarns(_)
FileWarns(lines) == IF Len(lines) = 0 THEN <<>> ELSE LineWarns(lines[1]) \o FileWarns(Tail(lines))

\* the report files' contents the directory can hold
ContentFull ==
  << <<"sim_time", ":", " ", "5">>,
     <<"delivery_prob", ":", " ", "1">>,
     <<"latency_avg", ":", " ", "2", "0">> >>
ContentBad ==
  << <<"delivery_prob", ":", " ", "x">>,
     <<"latency_avg", ":", "4">> >>
ContentNone == << <<"sim_time", ":", " ", "5">>, <<"created", " ", "9">> >>

ContentIds == {"full", "bad", "none"}

Content(id) ==
  CASE id = "full" -> ContentFull
    [] id = "bad" -> ContentBad
    [] id = "none" -> ContentNone

\* (a slip: the existence test left out)
ExistsUnchecked(f, name) == TRUE

\* os.path.exists, and what glob.glob lists
Exists(f, name) == name \in DOMAIN f /\ f[name] # "absent"

\* the directories with at most n files out of names
Directories(names, states, n) ==
  UNION {{[x \in names |-> IF x \in S THEN c[x] ELSE "absent"] : c \in [S -> states]} :
         S \in {T \in SUBSET names : Cardinality(T) <= n}}

-----------------------------------------------------------------------------
(* prophetcomparison/plot.py *)

MSR == "MessageStatsReport.txt"

\* files that match FILE_PATTERN = '*_MessageStatsReport.txt'
Names1 ==
  { <<"prophettuned", "_", "scenario", "1", "_", MSR>>,
    <<"prophettuned", "_", "scenario", "2", "_", MSR>>,
    <<"prophettuned", "_", "scenario", "0", "1", "_", MSR>>,
    <<"prophetrandomtuned", "_", "scenario", "1", "_", MSR>>,
    <<"prophetrandomtuned", "_", "scenario", "2", "_", MSR>>,
    <<"epidemic", "_", "scenario", "1", "_", MSR>>,
    <<"prophettuned", "_", MSR>> }

\* the end of the run of digits that starts at k (k - 1 if there is none)
RECURSIVE DigitsEnd(_, _)
DigitsEnd(t, k) == IF k <= Len(t) /\ t[k] \in Digits THEN DigitsEnd(t, k + 1) ELSE k - 1

\* re.match(r'(prophetrandomtuned|prophettuned)_scenario(\d+)_', basename)
MatchFilename(name) ==
  /\ Len(name) >= 5
  /\ name[1] \in {"prophetrandomtuned", "prophettuned"}
  /\ name[2] = "_" /\ name[3] = "scenario"
  /\ DigitsEnd(name, 4) >= 4
  /\ DigitsEnd(name, 4) < Len(name)
  /\ name[DigitsEnd(name, 4) + 1] = "_"

\* line 40
ProtocolName(name) ==
  IF name[1] = "prophetrandomtuned" THEN <<"Prophet", "Random">> ELSE <<"Prophet">>

\* line 41: int(match_filename.group(2))
ScenarioNum(name) == IntOf(SubSeq(name, 4, DigitsEnd(name, 4)))

\* lines 43-47
InitEntry(d, p, sc) ==
  LET d1 == IF p \in DOMAIN d THEN d ELSE Put(d, p, <<>>)
  IN IF sc \in DOMAIN d1[p] THEN d1 ELSE Put(d1, p, Put(d1[p], sc, <<>>))

\* (a slip: a name that does not match is read as scenario 0 of "Prophet")
ParseFile1Default(d, name, state) ==
  LET p == IF MatchFilename(name) THEN ProtocolName(name) ELSE <<"Prophet">>
      sc == IF MatchFilename(name) THEN ScenarioNum(name) ELSE 0
      d1 == InitEntry(d, p, sc)
  IN IF state = "unreadable" THEN d1
     ELSE Put(d1, p, Put(d1[p], sc, ParseLines1(d1[p][sc], Content(state))))

\* lines 32-74: the loop body for one file, on data
ParseFile1(d, name, state) ==
  IF ~MatchFilename(name) THEN d
  ELSE LET p == ProtocolName(name)
           sc == ScenarioNum(name)
           d1 == InitEntry(d, p, sc)
       IN IF state = "unreadable" THEN d1
          ELSE Put(d1, p, Put(d1[p], sc, ParseLines1(d1[p][sc], Content(state))))

\* what the loop body prints for one file
FileDiags1(name, state) ==
  IF ~MatchFilename(name) THEN <<Msg("bad_filename", name)>>
  ELSE IF state = "unreadable" THEN <<Msg("read_error", name)>>
  ELSE FileWarns(Content(state))

\* line 82: if not data
NoData(d) == DOMAIN d = {}

\* lines 86-87
Protocols(d) == SortTexts(KeyList(DOMAIN d))

\* lines 92-96: the scenarios of the first protocol
Scenarios(d) == SortNums(KeyList(DOMAIN d[Protocols(d)[1]]))

\* (a slip: every protocol's series read from the first protocol's data)
LookupFirst(d, proto, sc, metric_key) ==
  Get(Get(Get(d, SortTexts(KeyList(DOMAIN d))[1], <<>>), sc, <<>>), metric_key, NaN)

\* line 122: data.get(proto, {}).get(sc, {}).get(metric_key, np.nan)
Lookup(d, proto, sc, metric_key) == Get(Get(Get(d, proto, <<>>), sc, <<>>), metric_key, NaN)

\* lines 114-128
PlotData(d, protos, scs) ==
  [proto \in Range(protos) |->
     [metric_key \in Whitelist |->
        [k \in DOMAIN scs |-> Lookup(d, proto, scs[k], metric_key)]]]

\* lines 123-136: the block of warnings printed when a plotted value is NaN
MissingDataWarnings(pd) ==
  IF \E proto \in DOMAIN pd : \E m \in Whitelist : \E k \in DOMAIN pd[proto][m] :
       pd[proto][m][k].nan
  THEN <<Msg("data_warnings", 0)>>
  ELSE <<>>

\* lines 148-156: one subplot per metric, one line per protocol
Figure1(protos, scs, pd) ==
  [metric_key \in Whitelist |->
     [j \in DOMAIN protos |-> [label |-> protos[j], x |-> scs, y |-> pd[protos[j]][metric_key]]]]

Cmp1Init ==
  /\ script = "cmp1"
  /\ pc = "discover"
  /\ out = <<>>
  /\ fs \in Directories(Names1, ContentIds \cup {"unreadable"}, MaxFiles)
  /\ handed = <<>> /\ charts = <<>>
  /\ Cmp1Idle /\ Cmp2Idle /\ PopIdle /\ LinesIdle

\* (a slip: the empty test left out)
Cmp1DiscoverUnchecked ==
  /\ script = "cmp1" /\ pc = "discover"
  /\ \E found \in InjSeqsUpTo(Names1, MaxFiles) :
       /\ Range(found) = {n \in Names1 : Exists(fs, n)}
       /\ report_files' = SortTexts(found)
       /\ idx' = 1
       /\ pc' = "files"
       /\ out' = out
  /\ UNCHANGED <<script, popVars, cmpVars, data, protocols, scenarios, plot_data,
                 cmp2Vars, lineVars>>

\* lines 18-28: glob.glob in any order, the empty test, report_files.sort()
Cmp1Discover ==
  /\ script = "cmp1" /\ pc = "discover"
  /\ \E found \in InjSeqsUpTo(Names1, MaxFiles) :
       /\ Range(found) = {n \in Names1 : Exists(fs, n)}
       /\ IF Len(found) = 0
          THEN /\ out' = Append(out, Msg("no_files_found", 0))
               /\ pc' = "exit"
               /\ UNCHANGED <<report_files, idx>>
          ELSE /\ report_files' = SortTexts(found)
               /\ idx' = 1
               /\ pc' = "files"
               /\ out' = out
  /\ UNCHANGED <<script, popVars, cmpVars, data, protocols, scenarios, plot_data,
                 cmp2Vars, lineVars>>

\* lines 29-74: one turn of the file loop
Cmp1File ==
  /\ script = "cmp1" /\ pc = "files"
  /\ IF idx > Len(report_files)
     THEN /\ pc' = "prepare"
          /\ UNCHANGED <<idx, data, handed, out>>
     ELSE LET filename == report_files[idx] IN
          /\ handed' = Append(handed, filename)
          /\ data' = ParseFile1(data, filename, fs[filename])
          /\ out' = out \o FileDiags1(filename, fs[filename])
          /\ idx' = idx + 1
          /\ pc' = pc
  /\ UNCHANGED <<script, popVars, fs, charts, report_files, protocols, scenarios, plot_data,
                 cmp2Vars, lineVars>>

\* lines 82-128: the empty tests, protocols, scenarios, plot_data
Cmp1Prepare ==
  /\ script = "cmp1" /\ pc = "prepare"
  /\ IF NoData(data)
     THEN /\ out' = Append(out, Msg("no_data_parsed", 0))
          /\ pc' = "exit"
          /\ UNCHANGED <<protocols, scenarios, plot_data>>
     ELSE IF DOMAIN data[Protocols(data)[1]] = {}
     THEN /\ out' = Append(out, Msg("no_scenarios", 0))
          /\ pc' = "exit"
          /\ UNCHANGED <<protocols, scenarios, plot_data>>
     ELSE /\ protocols' = Protocols(data)
          /\ scenarios' = Scenarios(data)
          /\ plot_data' = PlotData(data, Protocols(data), Scenarios(data))
          /\ out' = out \o MissingDataWarnings(PlotData(data, Protocols(data), Scenarios(data)))
          /\ pc' = "render"
  /\ UNCHANGED <<script, popVars, cmpVars, report_files, idx, data, cmp2Vars, lineVars>>

\* lines 141-171: the grid of subplots and plt.show()
Cmp1Render ==
  /\ script = "cmp1" /\ pc = "render"
  /\ charts' = Append(charts, Figure1(protocols, scenarios, plot_data))
  /\ pc' = "done"
  /\ UNCHANGED <<script, out, popVars, fs, handed, cmp1Vars, cmp2Vars, lineVars>>

Cmp1Next == Cmp1Discover \/ Cmp1File \/ Cmp1Prepare \/ Cmp1Render

-----------------------------------------------------------------------------
(* prophetcomparison2/plot.py *)

\* names a configured list can hold
Names2 ==
  { <<"Haggle", "Prophet", "1", "0", "0", "_", MSR>>,
    <<"Haggle", "Prophet", "3", "0", "0", "_", MSR>>,
    <<"Haggle", "Prophet", "0", "1", "0", "0", "_", MSR>>,
    <<"Reality", "RandomProphet", "1", "0", "0", "_", MSR>>,
    <<"Epidemic", "1", "0", "0", "_", MSR>>,
    <<"Haggle", "Prophet", "_", MSR>> }

\* str.lower() of a token
Lower(t) ==
  CASE t = "Haggle" -> "haggle"
    [] t = "Reality" -> "reality"
    [] t = "Prophet" -> "prophet"
    [] t = "RandomProphet" -> "randomprophet"
    [] t = "Epidemic" -> "epidemic"
    [] t = MSR -> "messagestatsreport.txt"
    [] OTHER -> t

\* needle in fn_lower, for a needle that lies within one token
InLower(needle, name) ==
  \E k \in DOMAIN name :
    \/ Lower(name[k]) = needle
    \/ Lower(name[k]) = "randomprophet" /\ needle = "prophet"

\* lines 41-48
BaseType(name) ==
  IF InLower("haggle", name) THEN "Haggle"
  ELSE IF InLower("reality", name) THEN "Reality"
  ELSE "none"

\* lines 50-57
ProphetVariant(name) ==
  IF InLower("randomprophet", name) THEN <<"Random", "Prophet">>
  ELSE IF InLower("prophet", name) THEN <<"Prophet">>
  ELSE <<>>

\* re.search(r"(?:RandomProphet|Prophet)(\d+)_", filename, re.IGNORECASE):
\* the places where the pattern matches
ScenarioMatches(name) ==
  {k \in DOMAIN name :
     /\ Lower(name[k]) \in {"randomprophet", "prophet"}
     /\ DigitsEnd(name, k + 1) >= k + 1
     /\ DigitsEnd(name, k + 1) < Len(name)
     /\ name[DigitsEnd(name, k + 1) + 1] = "_"}

\* line 65: int(match_scenario.group(1)), of the leftmost match
ScenarioNumber(name) ==
  LET k == CHOOSE a \in ScenarioMatches(name) : \A b \in ScenarioMatches(name) : a <= b
  IN IntOf(SubSeq(name, k + 1, DigitsEnd(name, k + 1)))

Recognised2(name) ==
  BaseType(name) # "none" /\ ProphetVariant(name) # <<>> /\ ScenarioMatches(name) # {}

None == [none |-> TRUE]

\* lines 30-96: parse_message_stats_file, None or the record of the file
ParseMessageStatsFile(name, state) ==
  IF BaseType(name) = "none" THEN None
  ELSE IF ProphetVariant(name) = <<>> THEN None
  ELSE IF ScenarioMatches(name) = {} THEN None
  ELSE IF state \in {"unreadable", "absent"} THEN None
  ELSE LET metrics == ParseLines2(<<>>, Content(state))
       IN IF DOMAIN metrics = {} THEN None
          ELSE [none |-> FALSE,
                prophet_type |-> <<BaseType(name)>> \o ProphetVariant(name),
                scenario_number |-> ScenarioNumber(name),
                metrics |-> metrics]

\* what parse_message_stats_file prints
FileDiags2(name, state) ==
  IF BaseType(name) = "none" THEN <<Msg("no_base_type", name)>>
  ELSE IF ProphetVariant(name) = <<>> THEN <<Msg("no_variant", name)>>
  ELSE IF ScenarioMatches(name) = {} THEN <<Msg("no_scenario_number", name)>>
  ELSE IF state \in {"unreadable", "absent"} THEN <<Msg("parse_error", name)>>
  ELSE FileWarns(Content(state)) \o
       (IF DOMAIN ParseLines2(<<>>, Content(state)) = {}
        THEN <<Msg("no_metrics", name)>> ELSE <<>>)

\* lines 130-134: the (scenario, value) pairs in the order of all_parsed_data
RECURSIVE Collect(_, _, _)
Collect(items, pt, metric_key) ==
  IF Len(items) = 0 THEN <<>>
  ELSE (IF items[1].prophet_type = pt /\ metric_key \in DOMAIN items[1].metrics
        THEN << <<items[1].scenario_number, items[1].metrics[metric_key]>> >>
        ELSE <<>>) \o Collect(Tail(items), pt, metric_key)

\* lines 128-138: plotting_data, each list sorted by scenario
PlottingData(items) ==
  [pt \in {items[k].prophet_type : k \in DOMAIN items} |->
     [metric_key \in {m \in Whitelist :
                        \E k \in DOMAIN items :
                          items[k].prophet_type = pt /\ m \in DOMAIN items[k].metrics} |->
        SortPairs(Collect(items, pt, metric_key))]]

\* line 140
ProphetTypesPresent(pd) == SortTexts(KeyList(DOMAIN pd))

\* lines 149-153: the lines of one figure, one per prophet type that has the metric
RECURSIVE FigureLines(_, _, _)
FigureLines(types, pd, metric_key) ==
  IF Len(types) = 0 THEN <<>>
  ELSE (IF metric_key \in DOMAIN pd[types[1]] /\ Len(pd[types[1]][metric_key]) > 0
        THEN <<[label |-> types[1],
                x |-> [k \in DOMAIN pd[types[1]][metric_key] |-> pd[types[1]][metric_key][k][1]],
                y |-> [k \in DOMAIN pd[types[1]][metric_key] |-> pd[types[1]][metric_key][k][2]]]>>
        ELSE <<>>) \o FigureLines(Tail(types), pd, metric_key)

\* lines 145-176: the figures shown, in the order of METRICS_TO_PLOT
RECURSIVE Figures2(_, _, _)
Figures2(k, types, pd) ==
  IF k > Len(METRICS_TO_PLOT) THEN <<>>
  ELSE (IF Len(FigureLines(types, pd, METRICS_TO_PLOT[k])) = 0 THEN <<>>
        ELSE <<[metric |-> METRICS_TO_PLOT[k], lines |-> FigureLines(types, pd, METRICS_TO_PLOT[k])]>>)
       \o Figures2(k + 1, types, pd)

Cmp2Init ==
  /\ script = "cmp2"
  /\ pc = "files"
  /\ out = <<>>
  /\ DATA_FILES \in SeqsUpTo(Names2, MaxList)
  /\ fs \in Directories(Range(DATA_FILES), ContentIds \cup {"unreadable"}, MaxList)
  /\ idx = 1
  /\ handed = <<>> /\ charts = <<>>
  /\ report_files = <<>> /\ data = <<>>
  /\ protocols = <<>> /\ scenarios = <<>> /\ plot_data = <<>>
  /\ all_parsed_data = <<>> /\ prophet_types_present = <<>> /\ plotting_data = <<>>
  /\ PopIdle /\ LinesIdle

\* lines 109-126: one turn of the loop over DATA_FILES, then the empty test
Cmp2File ==
  /\ script = "cmp2" /\ pc = "files"
  /\ IF idx > Len(DATA_FILES)
     THEN /\ IF Len(all_parsed_data) = 0
             THEN /\ out' = Append(out, Msg("no_data_parsed", 0))
                  /\ pc' = "exit"
             ELSE /\ out' = out
                  /\ pc' = "reshape"
          /\ UNCHANGED <<idx, handed, all_parsed_data>>
     ELSE LET file_entry == DATA_FILES[idx] IN
          /\ idx' = idx + 1
          /\ pc' = pc
          /\ IF ~Exists(fs, file_entry)
             THEN /\ out' = Append(out, Msg("file_not_found", file_entry))
                  /\ UNCHANGED <<handed, all_parsed_data>>
             ELSE /\ handed' = Append(handed, file_entry)
                  /\ out' = out \o FileDiags2(file_entry, fs[file_entry])
                  /\ all_parsed_data' =
                       IF ParseMessageStatsFile(file_entry, fs[file_entry]).none
                       THEN all_parsed_data
                       ELSE Append(all_parsed_data, ParseMessageStatsFile(file_entry, fs[file_entry]))
  /\ UNCHANGED <<script, popVars, fs, charts, report_files, data, protocols, scenarios,
                 plot_data, DATA_FILES, prophet_types_present, plotting_data, lineVars>>

\* lines 128-143
Cmp2Reshape ==
  /\ script = "cmp2" /\ pc = "reshape"
  /\ plotting_data' = PlottingData(all_parsed_data)
  /\ prophet_types_present' = ProphetTypesPresent(PlottingData(all_parsed_data))
  /\ IF Len(ProphetTypesPresent(PlottingData(all_parsed_data))) = 0
     THEN /\ out' = Append(out, Msg("no_prophet_types", 0))
          /\ pc' = "exit"
     ELSE /\ out' = out
          /\ pc' = "render"
  /\ UNCHANGED <<script, popVars, cmpVars, cmp1Vars, DATA_FILES, all_parsed_data, lineVars>>

\* lines 145-178
Cmp2Render ==
  /\ script = "cmp2" /\ pc = "render"
  /\ charts' = Figures2(1, prophet_types_present, plotting_data)
  /\ out' = Append(out, Msg("plotting_complete", 0))
  /\ pc' = "done"
  /\ UNCHANGED <<script, popVars, fs, handed, cmp1Vars, cmp2Vars, lineVars>>

Cmp2Next == Cmp2File \/ Cmp2Reshape \/ Cmp2Render

CmpInit == Cmp1Init \/ Cmp2Init

CmpNext == Cmp1Next \/ Cmp2Next

SpecCmp == CmpInit /\ [][CmpNext]_vars

-----------------------------------------------------------------------------
(* The line loops of both comparison scripts on arbitrary lines: every     *)
(* line of at most MaxLineLen tokens, read into the record of the current  *)
(* file by each script's loop body.                                        *)

LineTokens == {"delivery_prob", "sim_time", ":", " ", "7"}

Lines == SeqsUpTo(LineTokens, MaxLineLen)

LinesInit ==
  /\ script = "lines"
  /\ pc = "read"
  /\ out = <<>>
  /\ line = <<>> /\ nlines = 0 /\ rec1 = <<>> /\ rec2 = <<>>
  /\ idx = 1
  /\ report_files = <<>> /\ data = <<>>
  /\ protocols = <<>> /\ scenarios = <<>> /\ plot_data = <<>>
  /\ CmpIdle /\ Cmp2Idle /\ PopIdle

\* for line in lines / for line in f: the next line of the file
LinesRead ==
  /\ script = "lines" /\ pc = "read"
  /\ nlines < MaxLines
  /\ line' \in Lines
  /\ nlines' = nlines + 1
  /\ pc' = "parse"
  /\ UNCHANGED <<script, out, popVars, cmpVars, cmp1Vars, cmp2Vars, rec1, rec2>>

\* the loop body: plot.py lines 59-74 and parse_message_stats_file lines 69-79
LinesParse ==
  /\ script = "lines" /\ pc = "parse"
  /\ rec1' = ParseLine1(rec1, line)
  /\ rec2' = ParseLine2(rec2, line)
  /\ out' = out \o LineWarns(line)
  /\ line' = <<>>
  /\ pc' = "read"
  /\ UNCHANGED <<script, popVars, cmpVars, cmp1Vars, cmp2Vars, nlines>>

\* the end of the file: the next file starts with an empty record
LinesNextFile ==
  /\ script = "lines" /\ pc = "read"
  /\ idx <= nlines
  /\ idx' = idx + 1
  /\ rec1' = <<>>
  /\ rec2' = <<>>
  /\ UNCHANGED <<script, pc, out, popVars, cmpVars, report_files, data, protocols,
                 scenarios, plot_data, cmp2Vars, line, nlines>>

LinesNext == LinesRead \/ LinesParse \/ LinesNextFile

SpecLines == LinesInit /\ [][LinesNext]_vars

-----------------------------------------------------------------------------
(* Properties of plot_popularity.py, checked under SpecPop *)

RowSelected == script = "pop" /\ pc \in {"parse", "delta", "render", "save", "done"}
                 /\ node_id_to_plot \in Range(df_index)

Numeric(cell) == cell.kind = "num"

\* w is x / Scale rounded towards zero
TruncatesTo(x, w) ==
  \/ x >= 0 /\ w >= 0 /\ w * Scale <= x /\ x < (w + 1) * Scale
  \/ x < 0 /\ w <= 0 /\ w * Scale >= x /\ x > (w - 1) * Scale

\* the sample of a cell, a missing or non-numeric one read as zero
ZeroFilled(cell) == IF Numeric(cell) THEN cell.v ELSE 0

\* C1 as stated: the plotted series has one bar per sample, w[0] = c[0] and
\* w[i] = c[i] - c[i-1], a missing or non-numeric sample counting as zero.
C1_Original ==
  chart # NoChart =>
    LET c == node_data
        w == chart[2]
    IN /\ Len(c) >= 1 /\ Len(w) = Len(c)
       /\ \A k \in DOMAIN c :
            w[k] * Scale = ZeroFilled(c[k]) - (IF k = 1 THEN 0 ELSE ZeroFilled(c[k - 1]))

\* C1 amended: the plotted series has one bar per sample; w[0] is c[0] and
\* w[i] is c[i] - c[i-1], each rounded towards zero to an integer, when the
\* samples it reads are numeric; a bar that reads a missing or non-numeric
\* sample (c[0] for w[0]; c[i] or c[i-1] for w[i]) is zero.  Header
\* Pop@3600,Pop@7200 with row 10,15 gives [10, 5].
C1_WindowDeltas ==
  chart # NoChart =>
    LET c == node_data
        w == chart[2]
    IN /\ Len(c) >= 1 /\ Len(w) = Len(c) /\ Len(chart[1]) = Len(c)
       /\ \A k \in DOMAIN c :
            IF k = 1
            THEN IF Numeric(c[1]) THEN TruncatesTo(c[1].v, w[1]) ELSE w[1] = 0
            ELSE IF Numeric(c[k]) /\ Numeric(c[k - 1])
                 THEN TruncatesTo(c[k].v - c[k - 1].v, w[k])
                 ELSE w[k] = 0
       /\ (df_columns = <<HPop3600, HPop7200>>
             /\ c = <<CellNum(10 * Scale), CellNum(15 * Scale)>>) => w = <<10, 5>>

\* a chart of three samples, the middle one missing: its bar and the next are zero
C1_Witness ==
  /\ chart # NoChart
  /\ node_data = <<CellNum(10 * Scale), CellEmpty, CellNum(15 * Scale)>>
  /\ chart[2] = <<10, 0, 0>>

\* C2: when the requested id is not a row id of the loaded file, the run
\* prints the not-found diagnostic and the list of all row ids, and ends
\* with no deltas computed, no chart drawn and no image saved.
C2_NotFound ==
  (script = "pop" /\ pc \notin {"load", "check_node"}
     /\ ~Printed("file_not_found") /\ ~Printed("load_error")
     /\ node_id_to_plot \notin Range(df_index)) =>
    /\ pc = "done"
    /\ Len(out) = 2
    /\ out[1].kind = "node_not_found" /\ out[1].arg = node_id_to_plot
    /\ out[2].kind = "available_node_ids" /\ out[2].arg = df_index
    /\ node_data = <<>> /\ cumulative_popularity = <<>> /\ window_popularity = <<>>
    /\ chart = NoChart /\ saved = <<>>

\* an id asked of a loaded file that has rows and columns but not that row
C2_Witness ==
  /\ pc = "done" /\ Printed("node_not_found")
  /\ Len(df_index) >= 1 /\ Len(df_columns) >= 1
  /\ node_id_to_plot \notin Range(df_index)

\* a header reads as a time: after its first "@" comes a non-empty run of
\* digits that ends at the next "@" or at the end of the header
ReadsAsTime(col) ==
  \E a \in DOMAIN col :
    /\ col[a] = "@" /\ \A j \in 1..(a - 1) : col[j] # "@"
    /\ \E b \in (a + 1)..Len(col) :
         /\ \A j \in (a + 1)..b : col[j] \in Digits
         /\ b = Len(col) \/ col[b + 1] = "@"

SomeHeaderUnreadable == \E k \in DOMAIN df_columns : ~ReadsAsTime(df_columns[k])

\* C8 as stated: a header that cannot be parsed is not fatal; the chart of
\* the requested row is still produced from the columns that can be parsed.
C8_Original ==
  (RowSelected /\ pc = "done" /\ SomeHeaderUnreadable
     /\ \E k \in DOMAIN df_columns : ReadsAsTime(df_columns[k]) /\ Numeric(node_data[k])) =>
    chart # NoChart

\* C8 amended: a header that cannot be parsed ends the call: the header
\* diagnostic is printed and the function returns with no deltas computed,
\* no chart drawn and no image saved, whatever the other columns hold.
C8_HeaderErrorFatal ==
  (RowSelected /\ pc # "parse" /\ SomeHeaderUnreadable) =>
    /\ pc = "done"
    /\ Len(out) = 1 /\ out[1].kind = "header_error"
    /\ window_popularity = <<>> /\ chart = NoChart /\ saved = <<>>

\* a row with a readable header over a numeric sample and an unreadable header
C8_Witness ==
  /\ RowSelected /\ pc = "done" /\ Printed("header_error")
  /\ \E k \in DOMAIN df_columns : ReadsAsTime(df_columns[k]) /\ Numeric(node_data[k])

-----------------------------------------------------------------------------
(* Properties of the two comparison scripts, checked under SpecCmp *)

OnDisk(name) == name \in DOMAIN fs /\ fs[name] # "absent"

Ascending(s) == \A k \in 1..(Len(s) - 1) : TextLess(s[k], s[k + 1])

NonDescending(s) == \A k \in 1..(Len(s) - 1) : ~TextLess(s[k + 1], s[k])

Count(s, x) == Cardinality({k \in DOMAIN s : s[k] = x})

SameBag(a, b) == \A x \in Range(a) \cup Range(b) : Count(a, x) = Count(b, x)

\* the files of a set listed in ascending order
AscendingList(S) == CHOOSE s \in [1..Cardinality(S) -> S] : Range(s) = S /\ Ascending(s)

\* the entries of a list rearranged in ascending order
AscendingPerm(l) == CHOOSE s \in [DOMAIN l -> Range(l)] : SameBag(s, l) /\ NonDescending(s)

\* data after the loop of prophetcomparison has run over files
RECURSIVE DataOf(_, _)
DataOf(d, files) ==
  IF Len(files) = 0 THEN d ELSE DataOf(ParseFile1(d, files[1], fs[files[1]]), Tail(files))

\* all_parsed_data after the loop of prophetcomparison2 has run over entries
RECURSIVE ParsedOf(_)
ParsedOf(entries) ==
  IF Len(entries) = 0 THEN <<>>
  ELSE (IF OnDisk(entries[1]) /\ ~ParseMessageStatsFile(entries[1], fs[entries[1]]).none
        THEN <<ParseMessageStatsFile(entries[1], fs[entries[1]])>>
        ELSE <<>>) \o ParsedOf(Tail(entries))

InLoop1 == script = "cmp1" /\ pc \in {"files", "prepare", "render", "done", "exit"}
             /\ Len(report_files) > 0

\* C3: a file whose name does not match the naming convention adds no
\* entry and stops nothing: after every turn of the file loop the parsed
\* result is what the loop gives on the files seen so far with the
\* unmatched ones taken out, every entry comes from a matched file, and
\* the loop has moved on to the next file.
C3_UnmatchedSkipped ==
  /\ InLoop1 =>
       /\ handed = SubSeq(report_files, 1, Len(handed))
       /\ pc = "files" => Len(handed) = idx - 1
       /\ pc # "files" => handed = report_files
       /\ data = DataOf(<<>>, SelectSeq(handed, MatchFilename))
       /\ \A p \in DOMAIN data : \A sc \in DOMAIN data[p] :
            \E k \in DOMAIN handed :
              /\ MatchFilename(handed[k])
              /\ ProtocolName(handed[k]) = p /\ ScenarioNum(handed[k]) = sc
  /\ script = "cmp2" =>
       /\ handed = SelectSeq(SubSeq(DATA_FILES, 1, idx - 1), OnDisk)
       /\ pc # "files" => idx = Len(DATA_FILES) + 1
       /\ all_parsed_data = ParsedOf(SelectSeq(handed, Recognised2))
       /\ \A k \in DOMAIN all_parsed_data :
            \E j \in DOMAIN handed :
              /\ Recognised2(handed[j])
              /\ all_parsed_data[k].prophet_type = <<BaseType(handed[j])>> \o ProphetVariant(handed[j])
              /\ all_parsed_data[k].scenario_number = ScenarioNumber(handed[j])

\* an unmatched file was read before a matched one, whose metrics were parsed
C3_Witness ==
  /\ script = "cmp1" /\ pc = "done"
  /\ Len(handed) = 2 /\ ~MatchFilename(handed[1]) /\ MatchFilename(handed[2])
  /\ \E p \in DOMAIN data : \E sc \in DOMAIN data[p] : DOMAIN data[p][sc] # {}

Reshaped1 == script = "cmp1" /\ pc \in {"render", "done"}

Reshaped2 == script = "cmp2" /\ pc \in {"render", "done"}

\* the reshaped result of prophetcomparison on the directory, files taken in ascending order
Reference1 ==
  LET d == DataOf(<<>>, AscendingList({n \in Names1 : OnDisk(n)}))
      ps == AscendingList(DOMAIN d)
      scs == SortNums(KeyList(DOMAIN d[ps[1]]))
  IN <<ps, scs, PlotData(d, ps, scs)>>

\* the reshaped result of prophetcomparison2 on the list, entries taken in ascending order
Reference2 == PlottingData(ParsedOf(AscendingPerm(DATA_FILES)))

ScenariosOf(series) == [k \in DOMAIN series |-> series[k][1]]

NumsAscending(s) == \A k \in 1..(Len(s) - 1) : s[k] < s[k + 1]

NumsNonDescending(s) == \A k \in 1..(Len(s) - 1) : s[k] <= s[k + 1]

\* C4 as stated: whatever the order the files are found or listed in, the
\* reshaped result is the same: group keys ascending, scenarios ascending,
\* and the same value at every (group, metric, position).
C4_Original ==
  /\ Reshaped1 =>
       /\ Ascending(protocols) /\ NumsAscending(scenarios)
       /\ <<protocols, scenarios, plot_data>> = Reference1
  /\ Reshaped2 =>
       /\ Ascending(prophet_types_present)
       /\ \A pt \in DOMAIN plotting_data : \A m \in DOMAIN plotting_data[pt] :
            NumsNonDescending(ScenariosOf(plotting_data[pt][m]))
       /\ plotting_data = Reference2

\* C4 amended: in prophetcomparison the reshaped result does not depend on
\* the order glob returns the files in.  In prophetcomparison2 the group
\* keys are ascending, every series is in non-descending scenario order, and
\* two listing orders give the same groups, metrics and (scenario, value)
\* entries; only entries of one series that share a scenario number may
\* change places (they stay in listing order).
C4_OrderIndependent ==
  /\ Reshaped1 =>
       /\ Ascending(protocols) /\ NumsAscending(scenarios)
       /\ <<protocols, scenarios, plot_data>> = Reference1
  /\ Reshaped2 =>
       /\ Ascending(prophet_types_present)
       /\ Range(prophet_types_present) = DOMAIN plotting_data
       /\ DOMAIN plotting_data = DOMAIN Reference2
       /\ \A pt \in DOMAIN plotting_data :
            /\ DOMAIN plotting_data[pt] = DOMAIN Reference2[pt]
            /\ \A m \in DOMAIN plotting_data[pt] :
                 /\ NumsNonDescending(ScenariosOf(plotting_data[pt][m]))
                 /\ SameBag(plotting_data[pt][m], Reference2[pt][m])

\* two files of one protocol and scenario with different metrics were found
\* by glob in descending order
C4_Witness ==
  /\ Reshaped1 /\ Len(report_files) = 2
  /\ ProtocolName(report_files[1]) = ProtocolName(report_files[2])
  /\ ScenarioNum(report_files[1]) = ScenarioNum(report_files[2])
  /\ fs[report_files[1]] = "full" /\ fs[report_files[2]] = "bad"
  /\ plot_data[protocols[1]]["delivery_prob"][1].nan

NoInputFile ==
  \/ script = "cmp1" /\ \A n \in Names1 : ~OnDisk(n)
  \/ script = "cmp2" /\ \A k \in DOMAIN DATA_FILES : ~OnDisk(DATA_FILES[k])

\* C5: with no input file on disk the run prints its diagnostic and exits:
\* it never reaches the reshaping or the rendering, hands no file to the
\* parser and shows no chart.
C5_EmptyInputExits ==
  NoInputFile =>
    /\ charts = <<>> /\ handed = <<>>
    /\ script = "cmp1" =>
         /\ pc \in {"discover", "exit"}
         /\ pc = "exit" => Len(out) = 1 /\ out[1].kind = "no_files_found"
    /\ script = "cmp2" =>
         /\ pc \in {"files", "exit"}
         /\ pc = "exit" =>
              /\ Len(out) = Len(DATA_FILES) + 1
              /\ out[Len(out)].kind = "no_data_parsed"
              /\ \A k \in DOMAIN DATA_FILES : out[k].kind = "file_not_found"

\* a list of two entries, neither on disk, and the run has exited
C5_Witness ==
  /\ script = "cmp2" /\ pc = "exit" /\ Len(DATA_FILES) = 2 /\ NoInputFile

NoMetricParsed ==
  \/ script = "cmp1" /\ \A p \in DOMAIN data : \A sc \in DOMAIN data[p] : DOMAIN data[p][sc] = {}
  \/ script = "cmp2" /\ \A k \in DOMAIN all_parsed_data : DOMAIN all_parsed_data[k].metrics = {}

\* C6 as stated: a run that parsed no metric value from any file ends with
\* a diagnostic and renders no chart.
C6_NoMetricsNoChart ==
  (script \in {"cmp1", "cmp2"} /\ pc \in {"done", "exit"} /\ NoMetricParsed) =>
    /\ pc = "exit" /\ charts = <<>>
    /\ Len(out) > 0
    /\ out[Len(out)].kind \in {"no_files_found", "no_data_parsed", "no_prophet_types"}

\* C9 as stated: the paths handed to the parser all exist, none comes
\* twice, and they come in ascending order.
C9_Original ==
  script \in {"cmp1", "cmp2"} =>
    /\ \A k \in DOMAIN handed : OnDisk(handed[k])
    /\ \A a, b \in DOMAIN handed : handed[a] = handed[b] => a = b
    /\ Ascending(handed)

MissingSoFar == {k \in 1..(idx - 1) : ~OnDisk(DATA_FILES[k])}

\* C9 amended: in prophetcomparison the paths handed to the parser exist,
\* none comes twice and they come in ascending order.  In prophetcomparison2
\* they exist and are the entries of the configured list that exist, each as
\* often as it is listed and in the order of the list; an entry that does not
\* exist is skipped with a warning and the entries after it are processed.
C9_HandedPaths ==
  /\ script = "cmp1" =>
       /\ \A k \in DOMAIN handed : OnDisk(handed[k])
       /\ Ascending(handed)
       /\ pc \notin {"discover", "files", "exit"} => Range(handed) = {n \in Names1 : OnDisk(n)}
  /\ script = "cmp2" =>
       /\ \A k \in DOMAIN handed : OnDisk(handed[k])
       /\ handed = SelectSeq(SubSeq(DATA_FILES, 1, idx - 1), OnDisk)
       /\ Cardinality({k \in DOMAIN out : out[k].kind = "file_not_found"}) = Cardinality(MissingSoFar)
       /\ pc # "files" => idx = Len(DATA_FILES) + 1

\* a list whose first entry is missing and whose second exists: the second was handed on
C9_Witness ==
  /\ script = "cmp2" /\ pc # "files" /\ Len(DATA_FILES) = 2
  /\ ~OnDisk(DATA_FILES[1]) /\ handed = <<DATA_FILES[2]>>

Parsed1(p, sc, m) == p \in DOMAIN data /\ sc \in DOMAIN data[p] /\ m \in DOMAIN data[p][sc]

\* every series has one entry per scenario of the axis, the axis ascending
SeriesAlongAxis ==
  /\ NumsAscending(scenarios)
  /\ DOMAIN plot_data = Range(protocols)
  /\ \A p \in DOMAIN plot_data : \A m \in Whitelist : Len(plot_data[p][m]) = Len(scenarios)

\* C10 as stated: every parsed value (p, s, m) is plotted: s is on the
\* scenario axis and plot_data[p][m] holds the value at the place of s.
C10_Original ==
  Reshaped1 =>
    /\ SeriesAlongAxis
    /\ \A p \in DOMAIN data : \A sc \in DOMAIN data[p] : \A m \in DOMAIN data[p][sc] :
         \E k \in DOMAIN scenarios : scenarios[k] = sc /\ plot_data[p][m][k] = data[p][sc][m]

\* C10 amended: the scenario axis is the ascending list of the scenarios of
\* the first protocol (in ascending protocol order); every value parsed for
\* (p, s, m) with s on that axis is at the place of s in plot_data[p][m],
\* a place with no parsed value holds NaN, and every series has one entry
\* per scenario of the axis.  Values of scenarios the first protocol does
\* not have are not plotted.
C10_FirstProtocolAxis ==
  Reshaped1 =>
    /\ SeriesAlongAxis
    /\ Ascending(protocols) /\ Range(protocols) = DOMAIN data
    /\ Range(scenarios) = DOMAIN data[protocols[1]]
    /\ \A p \in DOMAIN data : \A m \in Whitelist : \A k \in DOMAIN scenarios :
         plot_data[p][m][k] =
           IF Parsed1(p, scenarios[k], m) THEN data[p][scenarios[k]][m] ELSE NaN

\* two protocols: a value of the first is plotted at the place of its scenario, and
\* the second has metrics of a scenario the first has not, which are left out
C10_Witness ==
  /\ Reshaped1 /\ Len(protocols) = 2
  /\ \E sc \in DOMAIN data[protocols[2]] :
       /\ sc \notin Range(scenarios)
       /\ DOMAIN data[protocols[2]][sc] # {}
  /\ Parsed1(protocols[1], scenarios[1], "latency_avg")
  /\ plot_data[protocols[1]]["latency_avg"][1] = Num(20)
  /\ plot_data[protocols[2]]["latency_avg"][1] = NaN

-----------------------------------------------------------------------------
(* Properties of the line parsers, checked under SpecLines *)

\* l reads "key: value": a spaces, the key, b spaces, the colon, then the value text
KeyValueForm(l, a, b) ==
  /\ a + b + 2 <= Len(l)
  /\ \A j \in 1..a : l[j] = " "
  /\ l[a + 1] \notin {" ", ":"}
  /\ \A j \in (a + 2)..(a + b + 1) : l[j] = " "
  /\ l[a + b + 2] = ":"

\* the value text from position c to position d is a number: digits, spaces around them
NumberText(l, from, c, d) ==
  /\ from <= c /\ c <= d /\ d <= Len(l)
  /\ \A j \in from..(c - 1) : l[j] = " "
  /\ \A j \in c..d : l[j] \in Digits
  /\ \A j \in (d + 1)..Len(l) : l[j] = " "

\* the record after a line, as the claim has it
RecordAfter(rec, l) ==
  IF \E a, b \in 0..Len(l) : KeyValueForm(l, a, b) /\ l[a + 1] \in Whitelist
  THEN LET ab == CHOOSE p \in (0..Len(l)) \X (0..Len(l)) : KeyValueForm(l, p[1], p[2])
           key == l[ab[1] + 1]
           from == ab[1] + ab[2] + 3
       IN IF \E c, d \in from..Len(l) : NumberText(l, from, c, d)
          THEN LET cd == CHOOSE q \in (from..Len(l)) \X (from..Len(l)) :
                           NumberText(l, from, q[1], q[2])
               IN Put(rec, key, Num(IntOf(SubSeq(l, cd[1], cd[2]))))
          ELSE Put(rec, key, NaN)
  ELSE rec

\* C7: in both parsers a line "key: value" adds (or replaces) the entry of
\* key exactly when key is one of the six whitelisted names, with the number
\* read from the value text or NaN when the text is not a number; any other
\* line leaves the record as it is; the loop then goes on to the next line
\* and the next file.  The keys of a record are always whitelisted names.
C7_LineParsing ==
  /\ [](script = "lines" => DOMAIN rec1 \subseteq Whitelist /\ DOMAIN rec2 \subseteq Whitelist)
  /\ [][(script = "lines" /\ pc = "parse") =>
          /\ rec1' = RecordAfter(rec1, line)
          /\ rec2' = RecordAfter(rec2, line)
          /\ pc' = "read"]_vars

\* a value that is not a number was stored as NaN in the first file, and a
\* line of the next file was parsed to a number
C7_Witness ==
  /\ script = "lines" /\ pc = "read" /\ idx = 2 /\ nlines = 2
  /\ Printed("not_a_float")
  /\ rec1 = [x \in {"delivery_prob"} |-> Num(7)]
  /\ rec2 = rec1

====
